---- MODULE Spec2Model ----
(***************************************************************************)
(* The genetic-algorithm engine GA of pypoptim/algorythm/ga/ga.py:         *)
(* construction and its argument checks, the population operations and the *)
(* generational loop run.                                                  *)
(*                                                                         *)
(* Numbers.  Real numbers are taken from an integer grid.  Rates and       *)
(* uniform draws are counted in quarters (4 is 1.0, 6 is 1.5, a draw of 3  *)
(* is 0.75).  A Python optional or dynamically typed argument is a record  *)
(* whose tag is its Python type.  A float that may be NaN is a record      *)
(* [nan, v].  The fitness y of a solution is <<>> while unset (None) and   *)
(* <<v>> once set.                                                         *)
(*                                                                         *)
(* Identity.  Every population handled here holds pairwise different       *)
(* solution instances (generate_population, the transforms and the         *)
(* construction of children all create new objects), so "a is b" between   *)
(* two members of one population is equality of their positions.           *)
(***************************************************************************)
EXTENDS Integers, Sequences, FiniteSets, TLC

VARIABLES
    pc,              \* position of the caller / of run
    args,            \* the arguments of GA.__init__ (its frame)
    ga,              \* the engine: its fields, or the exception __init__ raised
    run,             \* the arguments of run: n_solutions, n_epochs, n_elites
    i,               \* run: the loop variable, epochs completed
    population,      \* run: population; the operations' argument
    elites,          \* run: elites
    mutants,         \* run: mutants
    size,            \* get_mutants: size
    population_new,  \* get_mutants: population_new (normalized space)
    parents,         \* get_mutants: positions of parent1, parent2
    err,             \* the exception a call ended with, "" if none
    result,          \* value returned to the caller by the last call
    filtered,        \* history: the survivors of the latest filter_population
    n_evals,         \* history: calls of update_population made by run
    n_filters        \* history: calls of filter_population made by run

vars == <<pc, args, ga, run, i, population, elites, mutants, size,
          population_new, parents, err, result, filtered, n_evals, n_filters>>

\* ------------------------------------------------------------------ bounds

\* largest n_solutions handed to run
MaxSolutions == 4
\* largest n_epochs handed to run
MaxEpochs == 2
\* longest population handed directly to filter_population and get_elites
MaxPopLen == 3

\* ----------------------------------------------------------------- helpers

Range(s) == {s[k] : k \in DOMAIN s}

Min(a, b) == IF a <= b THEN a ELSE b

Max(a, b) == IF a >= b THEN a ELSE b

None == [tag |-> "None"]

Float(v) == [nan |-> FALSE, v |-> v]

NaN == [nan |-> TRUE, v |-> 0]

\* all sequences over S of length lo..hi
SeqsOf(S, lo, hi) == UNION {[1..n -> S] : n \in lo..hi}

\* ------------------------------------------------------- gene transform
\* pypoptim.helpers is not part of the sources at hand; the transform is the
\* one the specification describes: log10 for the masked genes, then an
\* affine map sending the lower bound to 0 and scaling by 1/gamma.

RECURSIVE Log10(_)
Log10(v) == IF v < 10 THEN 0 ELSE 1 + Log10(v \div 10)

RECURSIVE Pow10(_)
Pow10(n) == IF n <= 0 THEN 1 ELSE 10 * Pow10(n - 1)

Scaled(v, log) == IF log THEN Log10(v) ELSE v

\* grid steps of the normalized space per unit of the (log-)scaled raw space
GridPerUnit == 2

transform_genes_bounds(genes, bounds, gammas, mask) ==
    LET lo(k) == Scaled(bounds[k][1], mask[k])
        hi(k) == Scaled(bounds[k][2], mask[k])
    IN  [genes  |-> [k \in DOMAIN bounds |->
                        ((Scaled(genes[k], mask[k]) - lo(k)) * GridPerUnit) \div gammas[k]],
         bounds |-> [k \in DOMAIN bounds |->
                        <<0, ((hi(k) - lo(k)) * GridPerUnit) \div gammas[k]>>]]

transform_genes_bounds_back(genes_transformed, bounds_transformed, bounds_back, mask) ==
    [k \in DOMAIN genes_transformed |->
        LET lo == Scaled(bounds_back[k][1], mask[k])
            hi == Scaled(bounds_back[k][2], mask[k])
            s  == lo + ((genes_transformed[k] - bounds_transformed[k][1]) * (hi - lo))
                          \div (bounds_transformed[k][2] - bounds_transformed[k][1])
        IN  IF mask[k] THEN Pow10(s) ELSE s]

is_values_inside_bounds(x, bounds) ==
    \A k \in DOMAIN x : bounds[k][1] <= x[k] /\ x[k] <= bounds[k][2]

\* ------------------------------------------------------------ GA.__init__

\* the checks of __init__, each as the condition under which it raises

BadSolutionSubclass(a) ==
    ~(a.SolutionSubclass.is_class /\ a.SolutionSubclass.subclass_of_Solution)

BadBoundsShape(a) ==
    \/ a.bounds.ndim # 2
    \/ Len(a.bounds.rows) = 0
    \/ Len(a.bounds.rows[1]) # 2

BadBoundsOrder(a) ==
    \E k \in DOMAIN a.bounds.rows : a.bounds.rows[k][1] >= a.bounds.rows[k][2]

BadMaskLength(a) ==
    /\ a.mask_log10_scale.tag # "None"
    /\ Len(a.mask_log10_scale.v) # Len(a.bounds.rows)

BadMaskPositivity(a) ==
    /\ a.mask_log10_scale.tag # "None"
    /\ \E k \in DOMAIN a.bounds.rows :
          /\ k \in DOMAIN a.mask_log10_scale.v
          /\ a.mask_log10_scale.v[k]
          /\ a.bounds.rows[k][1] <= 0

BadGammaDefault(a) ==
    /\ a.gamma_default.tag # "None"
    /\ a.gamma_default.v <= 0

BadGammasLength(a) ==
    /\ a.gammas.tag # "None"
    /\ Len(a.gammas.v) # Len(a.bounds.rows)

\* a comparison with NaN is false
BadGammasPositivity(a) ==
    /\ a.gammas.tag # "None"
    /\ \E k \in DOMAIN a.gammas.v : ~a.gammas.v[k].nan /\ a.gammas.v[k].v <= 0

BadMutationRate(a) == ~(0 <= a.mutation_rate /\ a.mutation_rate <= 4)

BadCrossoverRate(a) == ~(0 <= a.crossover_rate /\ a.crossover_rate <= 4)

BadSelectionForceType(a) == a.selection_force.tag # "int"

BadSelectionForceValue(a) == a.selection_force.v < 2

BadKeysDataTransmit(a) == a.keys_data_transmit.tag \notin {"None", "list", "tuple"}

BadRng(a) == a.rng.tag \notin {"None", "Generator"}

Raised(check, exc) == [status |-> "raised", check |-> check, exc |-> exc]

\* the fields __init__ sets when every check passes
Engine(a) ==
    LET bounds == a.bounds.rows
        n_genes == Len(bounds)
        mask == IF a.mask_log10_scale.tag = "None"
                THEN [k \in 1..n_genes |-> FALSE]
                ELSE a.mask_log10_scale.v
        gamma_default == IF a.gamma_default.tag = "None" THEN 1 ELSE a.gamma_default.v
        gammas == IF a.gammas.tag = "None"
                  THEN [k \in 1..n_genes |-> gamma_default]
                  ELSE [k \in 1..n_genes |->
                          IF a.gammas.v[k].nan THEN gamma_default ELSE a.gammas.v[k].v]
        lower == [k \in 1..n_genes |-> bounds[k][1]]
    IN  [status             |-> "ok",
         SolutionSubclass   |-> a.SolutionSubclass.class,
         bounds             |-> bounds,
         n_genes            |-> n_genes,
         mask_log10_scale   |-> mask,
         gamma_default      |-> gamma_default,
         gammas             |-> gammas,
         bounds_transformed |-> transform_genes_bounds(lower, bounds, gammas, mask).bounds,
         mutation_rate      |-> a.mutation_rate,
         crossover_rate     |-> a.crossover_rate,
         selection_force    |-> a.selection_force.v,
         keys_data_transmit |-> IF a.keys_data_transmit.tag = "None"
                                THEN <<>> ELSE a.keys_data_transmit.v,
         rng                |-> "Generator"]

\* a plausible slip: the two rate checks in the other order
GAInitRatesSwapped(a) ==
    IF BadSolutionSubclass(a) THEN Raised("SolutionSubclass", "TypeError")
    ELSE IF BadBoundsShape(a) THEN Raised("bounds", "ValueError")
    ELSE IF BadBoundsOrder(a) THEN Raised("bounds", "ValueError")
    ELSE IF BadMaskLength(a) THEN Raised("mask_log10_scale", "ValueError")
    ELSE IF BadMaskPositivity(a) THEN Raised("mask_log10_scale", "ValueError")
    ELSE IF BadGammaDefault(a) THEN Raised("gamma_default", "ValueError")
    ELSE IF BadGammasLength(a) THEN Raised("gammas", "ValueError")
    ELSE IF BadGammasPositivity(a) THEN Raised("gammas", "ValueError")
    ELSE IF BadCrossoverRate(a) THEN Raised("crossover_rate", "ValueError")
    ELSE IF BadMutationRate(a) THEN Raised("mutation_rate", "ValueError")
    ELSE IF BadSelectionForceType(a) THEN Raised("selection_force", "TypeError")
    ELSE IF BadSelectionForceValue(a) THEN Raised("selection_force", "ValueError")
    ELSE IF BadKeysDataTransmit(a) THEN Raised("keys_data_transmit", "TypeError")
    ELSE IF BadRng(a) THEN Raised("rng", "TypeError")
    ELSE Engine(a)

\* GA.__init__: the checks in the order of the code, then the fields
GAInit(a) ==
    IF BadSolutionSubclass(a) THEN Raised("SolutionSubclass", "TypeError")
    ELSE IF BadBoundsShape(a) THEN Raised("bounds", "ValueError")
    ELSE IF BadBoundsOrder(a) THEN Raised("bounds", "ValueError")
    ELSE IF BadMaskLength(a) THEN Raised("mask_log10_scale", "ValueError")
    ELSE IF BadMaskPositivity(a) THEN Raised("mask_log10_scale", "ValueError")
    ELSE IF BadGammaDefault(a) THEN Raised("gamma_default", "ValueError")
    ELSE IF BadGammasLength(a) THEN Raised("gammas", "ValueError")
    ELSE IF BadGammasPositivity(a) THEN Raised("gammas", "ValueError")
    ELSE IF BadMutationRate(a) THEN Raised("mutation_rate", "ValueError")
    ELSE IF BadCrossoverRate(a) THEN Raised("crossover_rate", "ValueError")
    ELSE IF BadSelectionForceType(a) THEN Raised("selection_force", "TypeError")
    ELSE IF BadSelectionForceValue(a) THEN Raised("selection_force", "ValueError")
    ELSE IF BadKeysDataTransmit(a) THEN Raised("keys_data_transmit", "TypeError")
    ELSE IF BadRng(a) THEN Raised("rng", "TypeError")
    ELSE Engine(a)

\* ---------------------------------------------------------------- Solution
\* pypoptim/algorythm/solution.py is not part of the sources at hand; a
\* solution is what the specification's data model says: genes x, fitness y,
\* payload data, the flags updated and valid set by the update hook.  calls
\* counts the invocations of the update hook on the instance (history).

NewSolution(genes, data) ==
    [x |-> genes, y |-> <<>>, data |-> data,
     updated |-> FALSE, valid |-> FALSE, calls |-> 0]

\* the total order of solutions: by fitness, lower is better
Less(a, b) == a.y[1] < b.y[1]

\* The update hook belongs to the caller's solution class.  The classes
\* tried: "fit" (fitness is the first gene, always valid), "picky" (the same,
\* but a solution whose first gene is 1 is not valid), "lazy" (the hook
\* leaves the solution not updated).
SolutionClasses == {"fit", "picky", "lazy"}

update(class, sol) ==
    IF class = "lazy" THEN [sol EXCEPT !.calls = @ + 1]
    ELSE [sol EXCEPT !.y = <<sol.x[1]>>,
                     !.updated = TRUE,
                     !.valid = (class # "picky" \/ sol.x[1] # 1),
                     !.calls = @ + 1]

\* ------------------------------------------------------- random source
\* uniform draws of rng.random(), in quarters
Draws == {0, 3}

\* values random_value_from_bounds may return for one gene
random_value_from_bounds(b) == {b[1], b[2]}

\* every way to pick s[k] from the set choices[k], for each position k
RECURSIVE Picks(_)
Picks(choices) ==
    IF Len(choices) = 0 THEN {<<>>}
    ELSE {<<h>> \o t : h \in Head(choices), t \in Picks(Tail(choices))}

\* ------------------------------------------------- variation operators
\* selection.py, crossover.py and mutation.py are not part of the sources at
\* hand; the operators are the ones the specification describes.

\* tournament_selection: the positions that can win a tournament of k
\* entries drawn without replacement; the best of the drawn entries wins
tournament_selection(p, k) ==
    {w \in DOMAIN p :
        \E S \in SUBSET (DOMAIN p) :
            /\ Cardinality(S) = k
            /\ w \in S
            /\ \A j \in S : ~Less(p[j], p[w])}

Clamp(v, b) == Max(b[1], Min(b[2], v))

\* SBX on one gene: the pairs of children values (the parents' values kept,
\* or the blend, here the one that spreads the children apart, cut to the bounds)
SbxGene(a, b, bnd, cross_rate) ==
    {<<a, b>> : u \in {u \in Draws : ~(u < cross_rate)}}
        \cup {<<Clamp(2 * a - b, bnd), Clamp(2 * b - a, bnd)>> :
                u \in {u \in Draws : u < cross_rate}}

\* the pairs <<genes of child A, genes of child B>>
sbx_crossover(genes1, genes2, bounds, cross_rate) ==
    {<<[k \in DOMAIN bounds |-> c[k][1]], [k \in DOMAIN bounds |-> c[k][2]]>> :
        c \in Picks([k \in DOMAIN bounds |->
                        SbxGene(genes1[k], genes2[k], bounds[k], cross_rate)])}

\* Cauchy mutation of one gene: a heavy-tailed offset, then the clamp
CauchyGene(t, bnd, gamma, mutation_rate) ==
    {t : u \in {u \in Draws : ~(u < mutation_rate)}}
        \cup UNION {{Clamp(t + d, bnd) :
                        d \in {-(gamma * (bnd[2] - bnd[1] + 1)), -gamma, gamma,
                               gamma * (bnd[2] - bnd[1] + 1)}} :
                            u \in {u \in Draws : u < mutation_rate}}

\* the populations the mutation may return
cauchy_mutation_population(pop, bounds, gamma, mutation_rate) ==
    Picks([j \in DOMAIN pop |->
            {[pop[j] EXCEPT !.x = x] :
                x \in Picks([k \in DOMAIN bounds |->
                        CauchyGene(pop[j].x[k], bounds[k], gamma, mutation_rate)])}])

\* ------------------------------------------------- GA: population operations

_transform_genes(g, genes) ==
    transform_genes_bounds(genes, g.bounds, g.gammas, g.mask_log10_scale).genes

_transform_genes_back(g, genes_transformed) ==
    transform_genes_bounds_back(genes_transformed, g.bounds_transformed,
                                g.bounds, g.mask_log10_scale)

_transform_solution(g, sol) ==
    [NewSolution(_transform_genes(g, sol.x), sol.data) EXCEPT !.y = sol.y]

_transform_solution_back(g, sol_transformed) ==
    [NewSolution(_transform_genes_back(g, sol_transformed.x), sol_transformed.data)
        EXCEPT !.y = sol_transformed.y]

\* the solutions generate_solution may return
generate_solution(g) ==
    {NewSolution(_transform_genes_back(g, t), {}) :
        t \in Picks([k \in 1..g.n_genes |->
                        random_value_from_bounds(g.bounds_transformed[k])])}

\* the populations generate_population(n_solutions) may return
generate_population(g, n_solutions) == [1..n_solutions -> generate_solution(g)]

_transform_population(g, pop) == [j \in DOMAIN pop |-> _transform_solution(g, pop[j])]

_transform_population_back(g, pop) ==
    [j \in DOMAIN pop |-> _transform_solution_back(g, pop[j])]

_mutate_population_transformed(g, pop) ==
    cauchy_mutation_population(pop, g.bounds_transformed, g.gamma_default,
                               g.mutation_rate)

\* the populations mutate_population(pop) may return
mutate_population(g, pop) ==
    {_transform_population_back(g, m) :
        m \in _mutate_population_transformed(g, _transform_population(g, pop))}

\* the payload keys of keys_data_transmit are copied from the parent; a key
\* the parent lacks is a KeyError
_transmit_solution_data(g, sol_parent, sol_child) ==
    IF Range(g.keys_data_transmit) \subseteq sol_parent.data
    THEN [exc |-> "", val |-> [sol_child EXCEPT !.data = @ \cup Range(g.keys_data_transmit)]]
    ELSE [exc |-> "KeyError", val |-> sol_child]

_selection(g, pop) == tournament_selection(pop, g.selection_force)

_crossover(g, genes1, genes2) ==
    sbx_crossover(genes1, genes2, g.bounds_transformed, g.crossover_rate)

\* sorted(): a stable insertion by the order of the solutions
RECURSIVE Sorted(_)
Sorted(s) ==
    IF Len(s) = 0 THEN <<>>
    ELSE LET front == Sorted(SubSeq(s, 1, Len(s) - 1))
             x == s[Len(s)]
             n == Cardinality({k \in DOMAIN front : ~Less(x, front[k])})
         IN  SubSeq(front, 1, n) \o <<x>> \o SubSeq(front, n + 1, Len(front))

\* a plausible slip: no check of size against the population
get_elitesUnchecked(pop, m) ==
    [exc |-> "", val |-> SubSeq(Sorted(pop), 1, Min(Max(m, 0), Len(pop)))]

\* get_elites: the exception raised, or the value returned
get_elites(pop, m) ==
    IF ~(0 <= m /\ m <= Len(pop)) THEN [exc |-> "ValueError", val |-> <<>>]
    ELSE [exc |-> "", val |-> SubSeq(Sorted(pop), 1, m)]

is_solution_inside_bounds(g, sol) == is_values_inside_bounds(sol.x, g.bounds)

\* a plausible slip: the bounds are not looked at
filter_populationNoBounds(g, pop) ==
    SelectSeq(pop, LAMBDA sol : sol.updated /\ sol.valid)

filter_population(g, pop) ==
    SelectSeq(pop, LAMBDA sol :
        sol.updated /\ sol.valid /\ is_solution_inside_bounds(g, sol))

update_population(g, pop) == [j \in DOMAIN pop |-> update(g.SolutionSubclass, pop[j])]

\* ------------------------------------------------------------------ states

NoArgs == [tag |-> "None"]

NoRun == [n_solutions |-> 0, n_epochs |-> 0, n_elites |-> 0]

\* the arguments of __init__ tried: every combination of these values
CtorArgs ==
    [SolutionSubclass :
        {[is_class |-> TRUE, subclass_of_Solution |-> TRUE, class |-> "fit"],
         [is_class |-> TRUE, subclass_of_Solution |-> FALSE, class |-> "dict"],
         [is_class |-> FALSE, subclass_of_Solution |-> FALSE, class |-> "fit"]},
     bounds :
        {[ndim |-> 2, rows |-> <<<<1, 10>>>>],
         [ndim |-> 2, rows |-> <<<<-1, 5>>>>],
         [ndim |-> 2, rows |-> <<<<1, 10>>, <<-1, 5>>>>],
         [ndim |-> 2, rows |-> <<<<5, 1>>>>],
         [ndim |-> 1, rows |-> <<>>]},
     mask_log10_scale :
        {None, [tag |-> "array", v |-> <<TRUE>>],
         [tag |-> "array", v |-> <<TRUE, FALSE>>],
         [tag |-> "array", v |-> <<FALSE, TRUE>>]},
     gamma_default : {None, [tag |-> "float", v |-> 1], [tag |-> "float", v |-> 0]},
     gammas :
        {None, [tag |-> "array", v |-> <<NaN>>],
         [tag |-> "array", v |-> <<Float(0)>>],
         [tag |-> "array", v |-> <<Float(1), NaN>>]},
     mutation_rate : {0, 4, 6},
     crossover_rate : {-1, 4, 6},
     selection_force :
        {[tag |-> "int", v |-> 1], [tag |-> "int", v |-> 2], [tag |-> "float", v |-> 2]},
     keys_data_transmit : {None, [tag |-> "str", v |-> <<>>]},
     rng : {None, [tag |-> "RandomState"]}]

\* the arguments of the engines the operations are run on
BaseArgs ==
    [SolutionSubclass   |-> [is_class |-> TRUE, subclass_of_Solution |-> TRUE,
                             class |-> "fit"],
     bounds             |-> [ndim |-> 2, rows |-> <<<<0, 1>>>>],
     mask_log10_scale   |-> None,
     gamma_default      |-> [tag |-> "float", v |-> 1],
     gammas             |-> None,
     mutation_rate      |-> 4,
     crossover_rate     |-> 4,
     selection_force    |-> [tag |-> "int", v |-> 3],
     keys_data_transmit |-> None,
     rng                |-> None]

\* one linear gene, selection force 3, crossover rate 1.0, class "fit";
\* the same with selection force 4;
\* one log10-scaled gene, selection force 2, crossover rate 0, class "picky";
\* the same with the class "lazy"
EngineArgs ==
    LET log == [BaseArgs EXCEPT
                    !.bounds = [ndim |-> 2, rows |-> <<<<1, 10>>>>],
                    !.mask_log10_scale = [tag |-> "array", v |-> <<TRUE>>],
                    !.selection_force = [tag |-> "int", v |-> 2],
                    !.crossover_rate = 0,
                    !.SolutionSubclass.class = "picky"]
    IN  {BaseArgs,
         [BaseArgs EXCEPT !.selection_force = [tag |-> "int", v |-> 4]],
         log,
         [log EXCEPT !.SolutionSubclass.class = "lazy"]}

Idle ==
    /\ run = NoRun
    /\ i = 0
    /\ population = <<>>
    /\ elites = <<>>
    /\ mutants = <<>>
    /\ size = 0
    /\ population_new = <<>>
    /\ parents = <<1, 1>>
    /\ err = ""
    /\ result = <<>>
    /\ filtered = <<>>
    /\ n_evals = 0
    /\ n_filters = 0

\* ------------------------------------------------------------ construction

InitCtor ==
    /\ pc = "ctor"
    /\ args \in CtorArgs
    /\ ga = [status |-> "none"]
    /\ Idle

\* GA(...): __init__ runs to its end or raises
GAInitCall ==
    /\ pc = "ctor"
    /\ ga' = GAInit(args)
    /\ pc' = IF ga'.status = "ok" THEN "constructed" ELSE "raised"
    /\ UNCHANGED <<args, run, i, population, elites, mutants, size, population_new,
                   parents, err, result, filtered, n_evals, n_filters>>

NextCtor == GAInitCall

SpecCtor == InitCtor /\ [][NextCtor]_vars

\* --------------------------------------------------------------------- run

Init ==
    /\ pc = "constructed"
    /\ args = NoArgs
    /\ ga \in {GAInit(a) : a \in EngineArgs}
    /\ Idle

\* run, lines 320-335: the checks of the arguments, then the first population
RunCall ==
    /\ pc = "constructed"
    /\ \E n_solutions \in (-1)..MaxSolutions, n_epochs \in (-1)..MaxEpochs,
          n_elites \in (-1)..(MaxSolutions + 1) :
          /\ run' = [n_solutions |-> n_solutions, n_epochs |-> n_epochs,
                     n_elites |-> n_elites]
          /\ IF n_solutions < 0 \/ n_epochs < 0
                \/ ~(0 <= n_elites /\ n_elites <= n_solutions)
             THEN /\ pc' = "error"
                  /\ err' = "ValueError"
                  /\ UNCHANGED population
             ELSE /\ pc' = "loop"
                  /\ err' = ""
                  /\ population' \in generate_population(ga, n_solutions)
    /\ i' = 0
    /\ UNCHANGED <<args, ga, elites, mutants, size, population_new, parents, result,
                   filtered, n_evals, n_filters>>

\* line 337: update_population calls the update hook of every solution
Evaluate ==
    /\ pc = "loop"
    /\ i < run.n_epochs
    /\ population' = update_population(ga, population)
    /\ n_evals' = n_evals + 1
    /\ pc' = "filter"
    /\ UNCHANGED <<args, ga, run, i, elites, mutants, size, population_new, parents,
                   err, result, filtered, n_filters>>

\* line 338
Filter ==
    /\ pc = "filter"
    /\ population' = filter_population(ga, population)
    /\ filtered' = population'
    /\ n_filters' = n_filters + 1
    /\ pc' = "elites"
    /\ UNCHANGED <<args, ga, run, i, elites, mutants, size, population_new, parents,
                   err, result, n_evals>>

\* line 339
Elites ==
    /\ pc = "elites"
    /\ LET r == get_elites(population, run.n_elites)
       IN  /\ err' = r.exc
           /\ elites' = r.val
           /\ pc' = IF r.exc = "" THEN "mutants" ELSE "error"
    /\ UNCHANGED <<args, ga, run, i, population, mutants, size, population_new,
                   parents, result, filtered, n_evals, n_filters>>

\* a plausible slip: nothing to produce, so the population is not looked at
GetMutantsEnterSizeFirst ==
    /\ pc = "mutants"
    /\ size' = run.n_solutions - run.n_elites
    /\ IF size' < 0
       THEN pc' = "error" /\ err' = "ValueError"
       ELSE IF size' = 0
       THEN pc' = "finish" /\ err' = ""
       ELSE IF Len(population) < 3
       THEN pc' = "error" /\ err' = "ValueError"
       ELSE pc' = "select" /\ err' = ""
    /\ population_new' = <<>>
    /\ parents' = <<1, 1>>
    /\ UNCHANGED <<args, ga, run, i, population, elites, mutants, result, filtered,
                   n_evals, n_filters>>

\* line 340, get_mutants lines 234-245: the checks, the empty list of
\* children, the loop test and both parents set to population[0]
GetMutantsEnter ==
    /\ pc = "mutants"
    /\ size' = run.n_solutions - run.n_elites
    /\ IF Len(population) < 3 \/ size' < 0
       THEN pc' = "error" /\ err' = "ValueError"
       ELSE /\ pc' = IF 0 < size' THEN "select" ELSE "finish"
            /\ err' = ""
    /\ population_new' = <<>>
    /\ parents' = <<1, 1>>
    /\ UNCHANGED <<args, ga, run, i, population, elites, mutants, result, filtered,
                   n_evals, n_filters>>

\* a plausible slip: one selection of the parents, not repeated
SelectParentsOnce ==
    /\ pc = "select"
    /\ ga.selection_force <= Len(population)
    /\ \E w1 \in _selection(ga, population), w2 \in _selection(ga, population) :
          parents' = <<w1, w2>>
    /\ pc' = "cross"
    /\ UNCHANGED <<args, ga, run, i, population, elites, mutants, size, population_new,
                   err, result, filtered, n_evals, n_filters>>

\* lines 246-248: one pass of the loop that selects both parents again while
\* they are the same instance.  A tournament of more entries than the
\* population holds cannot be drawn without replacement: the draw raises.
SelectParents ==
    /\ pc = "select"
    /\ IF ga.selection_force > Len(population)
       THEN /\ pc' = "error"
            /\ err' = "ValueError"
            /\ UNCHANGED parents
       ELSE /\ \E w1 \in _selection(ga, population), w2 \in _selection(ga, population) :
                  /\ parents' = <<w1, w2>>
                  /\ pc' = IF w1 = w2 THEN "select" ELSE "cross"
            /\ UNCHANGED err
    /\ UNCHANGED <<args, ga, run, i, population, elites, mutants, size, population_new,
                   result, filtered, n_evals, n_filters>>

\* the pairs of children one pass of lines 250-266 may append
Offspring(g, parent1, parent2) ==
    LET parent1_transformed == _transform_solution(g, parent1)
        parent2_transformed == _transform_solution(g, parent2)
        parent_data_transmitter ==
            IF Less(parent2_transformed, parent1_transformed)
            THEN parent2_transformed ELSE parent1_transformed
        child(genes) ==
            _transmit_solution_data(g, parent_data_transmitter, NewSolution(genes, {}))
    IN  UNION {IF u <= g.crossover_rate
               THEN {[exc |-> child(c[1]).exc,
                      val |-> <<child(c[1]).val, child(c[2]).val>>] :
                        c \in _crossover(g, parent1_transformed.x, parent2_transformed.x)}
               ELSE {[exc |-> "", val |-> <<parent1_transformed, parent2_transformed>>]} :
                u \in Draws}

\* lines 250-266 and the loop test of line 243
Cross ==
    /\ pc = "cross"
    /\ \E o \in Offspring(ga, population[parents[1]], population[parents[2]]) :
          IF o.exc # ""
          THEN /\ pc' = "error"
               /\ err' = o.exc
               /\ UNCHANGED population_new
          ELSE /\ population_new' = population_new \o o.val
               /\ pc' = IF Len(population_new') < size THEN "select" ELSE "finish"
               /\ UNCHANGED err
    /\ parents' = <<1, 1>>
    /\ UNCHANGED <<args, ga, run, i, population, elites, mutants, size, result,
                   filtered, n_evals, n_filters>>

\* a plausible slip: the list of children is not cut to size
TruncatedNot(pop, k) == pop

\* line 269
Truncated(pop, k) == SubSeq(pop, 1, k)

\* a plausible slip: the children stay in the normalized space
MutantsOfNotBack(g, children, k) ==
    _mutate_population_transformed(g, Truncated(children, k))

\* lines 269-274: what get_mutants may return for the children accumulated
MutantsOf(g, children, k) ==
    {_transform_population_back(g, m) :
        m \in _mutate_population_transformed(g, Truncated(children, k))}

GetMutantsFinish ==
    /\ pc = "finish"
    /\ mutants' \in MutantsOf(ga, population_new, size)
    /\ population_new' = <<>>
    /\ pc' = "recombine"
    /\ UNCHANGED <<args, ga, run, i, population, elites, size, parents, err, result,
                   filtered, n_evals, n_filters>>

\* a plausible slip: the mutants first
RecombinedMutantsFirst(e, m) == m \o e

\* line 341
Recombined(e, m) == e \o m

Recombine ==
    /\ pc = "recombine"
    /\ population' = Recombined(elites, mutants)
    /\ i' = i + 1
    /\ pc' = "loop"
    /\ UNCHANGED <<args, ga, run, elites, mutants, size, population_new, parents, err,
                   result, filtered, n_evals, n_filters>>

\* a plausible slip: the final population is evaluated before it is returned
RunReturnEvaluated ==
    /\ pc = "loop"
    /\ i = run.n_epochs
    /\ population' = update_population(ga, population)
    /\ result' = population'
    /\ n_evals' = n_evals + 1
    /\ pc' = "done"
    /\ UNCHANGED <<args, ga, run, i, elites, mutants, size, population_new, parents,
                   err, filtered, n_filters>>

\* line 342
RunReturn ==
    /\ pc = "loop"
    /\ i = run.n_epochs
    /\ result' = population
    /\ pc' = "done"
    /\ UNCHANGED <<args, ga, run, i, population, elites, mutants, size,
                   population_new, parents, err, filtered, n_evals, n_filters>>

\* the caller asks for a population of its own
GeneratePopulationCall ==
    /\ pc = "constructed"
    /\ \E n \in 0..MaxPopLen : population' \in generate_population(ga, n)
    /\ result' = population'
    /\ pc' = "held"
    /\ UNCHANGED <<args, ga, run, i, elites, mutants, size, population_new, parents,
                   err, filtered, n_evals, n_filters>>

\* the caller hands the population it holds to mutate_population, and keeps
\* what is returned
MutatePopulationCall ==
    /\ pc \in {"held", "mutated"}
    /\ population' \in mutate_population(ga, population)
    /\ result' = population'
    /\ pc' = "mutated"
    /\ UNCHANGED <<args, ga, run, i, elites, mutants, size, population_new, parents,
                   err, filtered, n_evals, n_filters>>

\* genes a caller may hand in for an engine: on both bounds and one step
\* outside them
CallerGenes(g) ==
    Picks([k \in 1..g.n_genes |->
            {g.bounds[k][1] - 1, g.bounds[k][1], g.bounds[k][2], g.bounds[k][2] + 1}])

\* the populations handed to filter_population: every combination of the
\* genes and of the flags
FilterInputs(g) ==
    SeqsOf({[NewSolution(x, {}) EXCEPT !.y = <<0>>, !.updated = u, !.valid = v] :
                x \in CallerGenes(g), u \in BOOLEAN, v \in BOOLEAN},
           0, MaxPopLen)

\* the populations handed to get_elites: evaluated solutions of every fitness
EliteInputs(g) ==
    SeqsOf({[NewSolution(x, {}) EXCEPT !.y = <<f>>, !.updated = TRUE, !.valid = TRUE] :
                x \in Picks([k \in 1..g.n_genes |-> {g.bounds[k][1], g.bounds[k][2]}]),
                f \in 0..2},
           0, MaxPopLen)

\* the caller calls filter_population on a population of its own
FilterPopulationCall ==
    /\ pc = "constructed"
    /\ \E pop \in FilterInputs(ga) :
          /\ population' = pop
          /\ result' = filter_population(ga, pop)
    /\ pc' = "filter_done"
    /\ UNCHANGED <<args, ga, run, i, elites, mutants, size, population_new, parents,
                   err, filtered, n_evals, n_filters>>

\* the caller calls get_elites on a population of its own
GetElitesCall ==
    /\ pc = "constructed"
    /\ \E pop \in EliteInputs(ga), m \in (-1)..(MaxPopLen + 1) :
          /\ population' = pop
          /\ size' = m
          /\ err' = get_elites(pop, m).exc
          /\ result' = get_elites(pop, m).val
    /\ pc' = "elites_done"
    /\ UNCHANGED <<args, ga, run, i, elites, mutants, population_new, parents,
                   filtered, n_evals, n_filters>>

Next ==
    \/ RunCall
    \/ Evaluate
    \/ Filter
    \/ Elites
    \/ GetMutantsEnter
    \/ SelectParents
    \/ Cross
    \/ GetMutantsFinish
    \/ Recombine
    \/ RunReturn
    \/ GeneratePopulationCall
    \/ MutatePopulationCall
    \/ FilterPopulationCall
    \/ GetElitesCall

Spec == Init /\ [][Next]_vars

\* ================================================================== claims

Count(seq, r) == Cardinality({k \in DOMAIN seq : seq[k] = r})

\* e holds the m best solutions of pop, ascending: m entries in ascending
\* order, each taken from pop no more often than pop holds it, and a
\* solution of pop better than one of e is in e as often as in pop
IsBest(e, pop, m) ==
    /\ Len(e) = m
    /\ \A j \in 1..(m - 1) : ~Less(e[j + 1], e[j])
    /\ \A r \in Range(e) : Count(e, r) <= Count(pop, r)
    /\ \A k \in DOMAIN pop : \A j \in 1..m :
          Less(pop[k], e[j]) => Count(e, pop[k]) = Count(pop, pop[k])

InsideRaw(sol) ==
    \A k \in DOMAIN ga.bounds :
        ga.bounds[k][1] <= sol.x[k] /\ sol.x[k] <= ga.bounds[k][2]

RunPcs == {"loop", "filter", "elites", "mutants", "select", "cross", "finish",
           "recombine", "done"}

\* C1: after every completed epoch of run the population has n_solutions
\* entries: first the n_elites best survivors of the epoch's filter, in
\* ascending order, then the mutants get_mutants returned; the population
\* run returns has n_solutions entries, also for n_epochs = 0.
C1_EpochPopulation ==
    /\ (pc \in {"loop", "done"} /\ i >= 1) =>
          /\ Len(population) = run.n_solutions
          /\ IsBest(SubSeq(population, 1, run.n_elites), filtered, run.n_elites)
          /\ SubSeq(population, run.n_elites + 1, Len(population)) = mutants
          /\ Len(mutants) = run.n_solutions - run.n_elites
    /\ pc = "done" => Len(result) = run.n_solutions

C1_Witness ==
    /\ pc = "done"
    /\ i = 2
    /\ run.n_solutions = 4
    /\ run.n_elites = 1
    /\ Len(filtered) = 3

\* C2: get_mutants(population, size) returns exactly size solutions, for odd
\* size and for size 0 as well.
C2_MutantCount ==
    pc = "recombine" =>
        /\ Len(population) >= 3
        /\ size = run.n_solutions - run.n_elites
        /\ Len(mutants) = size

C2_Witness ==
    /\ pc = "recombine"
    /\ size = 3
    /\ Len(population) = 4

\* C3: every gene of every solution generate_solution, get_mutants and
\* mutate_population return lies within its raw bounds, linear or log10
\* scaled, over all the epochs of run and over repeated mutation.
C3_BoundsClosure ==
    pc \in RunPcs \cup {"held", "mutated"} =>
        \A sol \in Range(population) \cup Range(mutants) \cup Range(elites)
                    \cup Range(result) : InsideRaw(sol)

C3_Witness ==
    /\ pc = "loop"
    /\ i = 2
    /\ ga.mask_log10_scale[1]
    /\ Len(mutants) >= 2
    /\ \E j \in DOMAIN mutants, k \in DOMAIN mutants : mutants[j].x # mutants[k].x

\* C4: filter_population returns exactly the solutions of its argument that
\* are updated, valid and inside the raw bounds, in their order, each once.
C4_FilterExact ==
    /\ pc = "filter_done" =>
          LET keep == {k \in DOMAIN population :
                          /\ population[k].updated
                          /\ population[k].valid
                          /\ InsideRaw(population[k])}
              nth(j) == CHOOSE k \in keep : Cardinality({h \in keep : h < k}) = j - 1
          IN  /\ Len(result) = Cardinality(keep)
              /\ \A j \in 1..Len(result) : result[j] = population[nth(j)]
    /\ pc = "elites" =>
          \A sol \in Range(population) : sol.updated /\ sol.valid /\ InsideRaw(sol)

C4_Witness ==
    /\ pc = "filter_done"
    /\ Len(population) = 3
    /\ Len(result) = 2
    /\ result[1] # result[2]
    /\ population[2].updated
    /\ population[2].valid
    /\ ~InsideRaw(population[2])

\* C5: get_elites(pop, m) returns the m smallest solutions of pop, ascending,
\* when 0 <= m <= len(pop), and raises otherwise, returning no list.
C5_Elites ==
    /\ pc = "elites_done" =>
          IF 0 <= size /\ size <= Len(population)
          THEN err = "" /\ IsBest(result, population, size)
          ELSE err = "ValueError" /\ result = <<>>
    /\ pc = "mutants" => IsBest(elites, population, run.n_elites)

C5_Witness ==
    /\ pc = "elites_done"
    /\ Len(population) = 3
    /\ size = 2
    /\ Less(population[3], population[2])
    /\ Less(population[2], population[1])
    /\ result = <<population[3], population[2]>>

\* C6: the two parents that reach the transform and crossover step of
\* get_mutants are different solution instances.
C6_DistinctParents == pc = "cross" => parents[1] # parents[2]

C6_Witness ==
    /\ pc = "cross"
    /\ Len(population_new) = 2
    /\ Len(population) = 4

\* C7: an epoch whose filter leaves fewer than 3 survivors ends run with an
\* error: the epoch is never completed and nothing is returned, also when
\* n_elites = n_solutions and no mutant is asked for.
C7_FewSurvivorsFatal ==
    /\ (n_filters >= 1 /\ Len(filtered) < 3) =>
          /\ pc \in {"elites", "mutants", "error"}
          /\ n_filters = i + 1
          /\ result = <<>>
    /\ pc = "error" => err # ""

C7_Witness ==
    /\ pc = "error"
    /\ n_filters = 1
    /\ run.n_solutions = 2
    /\ run.n_elites = 2
    /\ Len(filtered) = 2
    /\ Len(elites) = 2

\* C9: run calls update_population once per epoch, on the whole population
\* and before the epoch's filter, and never after the last recombination:
\* the mutants of the last epoch are returned without a call of their
\* update hook, and with n_epochs = 0 no hook is called at all.
C9_EvaluateSteps ==
    pc \in RunPcs =>
        /\ n_evals = IF pc \in {"loop", "done"} THEN i ELSE i + 1
        /\ n_filters = IF pc = "filter" THEN n_evals - 1 ELSE n_evals
        /\ pc = "filter" => \A sol \in Range(population) : sol.calls >= 1
        /\ pc = "done" =>
              /\ n_evals = run.n_epochs
              /\ \A k \in (run.n_elites + 1)..Len(result) : result[k].calls = 0
              /\ run.n_epochs = 0 => \A sol \in Range(result) : sol.calls = 0

C9_Witness ==
    /\ pc = "done"
    /\ run.n_epochs = 2
    /\ run.n_elites = 1
    /\ Len(result) = 4
    /\ result[1].calls = 2

\* C10: the loop of get_mutants that selects both parents again while they
\* are the same instance ends.  A pass of the loop leaves the state as it
\* found it, so under fair draws the loop ends exactly when some pair of
\* tournaments can return two different instances.
C10_RetryCanExit ==
    (pc = "select" /\ ga.selection_force <= Len(population)) =>
        \E w1 \in _selection(ga, population), w2 \in _selection(ga, population) :
            w1 # w2

\* ------------------------------------------------------ claims, GA.__init__

ClaimedOrder ==
    <<"SolutionSubclass", "bounds", "mask_log10_scale", "gamma_default", "gammas",
      "mutation_rate", "crossover_rate", "selection_force", "keys_data_transmit", "rng">>

Violates(a, check) ==
    CASE check = "SolutionSubclass" -> BadSolutionSubclass(a)
      [] check = "bounds" -> BadBoundsShape(a) \/ BadBoundsOrder(a)
      [] check = "mask_log10_scale" -> BadMaskLength(a) \/ BadMaskPositivity(a)
      [] check = "gamma_default" -> BadGammaDefault(a)
      [] check = "gammas" -> BadGammasLength(a) \/ BadGammasPositivity(a)
      [] check = "mutation_rate" -> BadMutationRate(a)
      [] check = "crossover_rate" -> BadCrossoverRate(a)
      [] check = "selection_force" ->
            BadSelectionForceType(a) \/ BadSelectionForceValue(a)
      [] check = "keys_data_transmit" -> BadKeysDataTransmit(a)
      [] check = "rng" -> BadRng(a)

\* C8: __init__ raises the error of the earliest violated check in the order
\* solution subclass, bounds, log-scale mask, gamma_default, gammas, mutation
\* rate, crossover rate, selection force, keys_data_transmit, rng, and then
\* produces no engine; it produces one exactly when no check is violated.
C8_EarliestCheck ==
    pc # "ctor" =>
        LET bad == {k \in DOMAIN ClaimedOrder : Violates(args, ClaimedOrder[k])}
        IN  /\ IF bad = {}
               THEN pc = "constructed" /\ ga.status = "ok"
               ELSE /\ pc = "raised"
                    /\ ga.status = "raised"
                    /\ ga.check = ClaimedOrder[CHOOSE k \in bad : \A h \in bad : k <= h]
            /\ (/\ args.mask_log10_scale = [tag |-> "array", v |-> <<TRUE>>]
                /\ args.bounds.rows = <<<<-1, 5>>>>) => ga.status = "raised"
            /\ args.crossover_rate = 6 => ga.status = "raised"
            /\ args.selection_force.v = 1 => ga.status = "raised"

C8_Witness ==
    /\ pc = "raised"
    /\ args.mutation_rate = 6
    /\ args.crossover_rate = 6
    /\ args.selection_force.v = 1
    /\ ga.check = "mutation_rate"

====
